---- MODULE Spec2Model ----
(***************************************************************************)
(* Model of tools/codegen/core/gen_experiments.py: the generator that      *)
(* loads experiments.yaml and rollouts.yaml, validates both documents and  *)
(* writes experiments.h, experiments.cc and bazel/experiments.bzl.         *)
(*                                                                         *)
(* Conventions.  A Python str that the program inspects character by       *)
(* character, compares or sorts (names, tags, descriptions, the annotation *)
(* string) is a sequence of code points.  A Python value used as a         *)
(* dictionary key or tested for truth (a rollout default, the fuzzing      *)
(* flag) is named by its repr: "True", "False", "'broken'", "'debug'",     *)
(* "'false'".  A dict is a function whose DOMAIN is its set of keys, so    *)
(* a record that lacks a field lacks it in its DOMAIN.  The text of an     *)
(* expiry field is [kind |-> "ymd", y, m, d] for digits "y/m/d" and        *)
(* [kind |-> "text", text |-> s] for anything else.                        *)
(***************************************************************************)
EXTENDS Integers, Sequences, FiniteSets, TLC

VARIABLES
    check_dates,                \* line 37-39: FALSE iff argv[1:] == ["--check"]
    attrs,                      \* line 42: the experiment document
    rollouts,                   \* line 45: the rollout document
    today,                      \* line 76: datetime.date.today(), as an ordinal
    error,                      \* line 75: the accumulated failure flag
    experiment_annotation,      \* line 78
    pc,                         \* the statement the interpreter is at
    idx,                        \* position of the running for-loop (1-based)
    stdout,                     \* what print() wrote to standard output
    exited,                     \* the interpreter has terminated
    exit_code,                  \* its exit status, once exited
    raised,                     \* the uncaught exception that ended it, or ""
    H,                          \* src/core/lib/experiments/experiments.h
    C,                          \* src/core/lib/experiments/experiments.cc
    B,                          \* bazel/experiments.bzl
    bzl_to_tags_to_experiments, \* line 313
    run,                        \* 1 for the first invocation, 2 for the re-run
    prev                        \* what the first invocation left behind

vars == <<check_dates, attrs, rollouts, today, error, experiment_annotation,
          pc, idx, stdout, exited, exit_code, raised, H, C, B,
          bzl_to_tags_to_experiments, run, prev>>

inputs == <<check_dates, attrs, today>>

----------------------------------------------------------------------------
(* Bounds of the model. *)

MaxAttrs == 2
MaxRollouts == 2

----------------------------------------------------------------------------
(* Strings. *)

Range(s) == {s[k] : k \in DOMAIN s}

foo_bar == <<102, 111, 111, 95, 98, 97, 114>>
baz == <<98, 97, 122>>
zed == <<122, 101, 100>>
monitoring_experiment ==
    <<109, 111, 110, 105, 116, 111, 114, 105, 110, 103, 95,
      101, 120, 112, 101, 114, 105, 109, 101, 110, 116>>
tag_core == <<99, 111, 114, 101>>
tag_api == <<97, 112, 105>>

\* a name of LongNameLen letters 'l'
LongNameLen == 990
long_name == [k \in 1..LongNameLen |-> 108]

\* Python's str comparison: by code point, a proper prefix first
RECURSIVE StrLess(_, _)
StrLess(a, b) ==
    IF b = <<>> THEN FALSE
    ELSE IF a = <<>> THEN TRUE
    ELSE IF Head(a) # Head(b) THEN Head(a) < Head(b)
    ELSE StrLess(Tail(a), Tail(b))

sorted_as_given(s) == s

\* sorted(): a stable insertion sort by StrLess
RECURSIVE Insert(_, _)
Insert(x, s) ==
    IF s = <<>> THEN <<x>>
    ELSE IF StrLess(x, Head(s)) THEN <<x>> \o s
    ELSE <<Head(s)>> \o Insert(x, Tail(s))

RECURSIVE sorted(_)
sorted(s) ==
    IF s = <<>> THEN <<>>
    ELSE Insert(s[Len(s)], sorted(SubSeq(s, 1, Len(s) - 1)))

\* sorted() of the keys of a dict
RECURSIVE SortedKeys(_)
SortedKeys(S) ==
    IF S = {} THEN <<>>
    ELSE LET least == CHOOSE x \in S : \A y \in S \ {x} : StrLess(x, y)
         IN <<least>> \o SortedKeys(S \ {least})

----------------------------------------------------------------------------
(* The lookup tables, lines 47-73.  None is written "None". *)

DEFAULTS ==
    ("'broken'" :> "false") @@ ("False" :> "false") @@ ("True" :> "true")
    @@ ("'debug'" :> "kDefaultForDebugOnly")

FINAL_RETURN ==
    ("'broken'" :> "return false;") @@ ("False" :> "return false;")
    @@ ("True" :> "return true;")
    @@ ("'debug'" :> "#ifdef NDEBUG\nreturn false;\n#else\nreturn true;\n#endif")

FINAL_DEFINE_release ==
    ("'broken'" :> "None") @@ ("False" :> "None") @@ ("True" :> "#define %s")
    @@ ("'debug'" :> "#ifdef NDEBUG\n#define %s\n#endif")

FINAL_DEFINE ==
    ("'broken'" :> "None") @@ ("False" :> "None") @@ ("True" :> "#define %s")
    @@ ("'debug'" :> "#ifndef NDEBUG\n#define %s\n#endif")

\* the categories are sorted at line 335, so they are code points; None is
\* a value no str equals
None == <<-1>>
off == <<111, 102, 102>>
on == <<111, 110>>
dbg == <<100, 98, 103>>

BZL_LIST_FOR_DEFAULTS_broken_off ==
    ("'broken'" :> off) @@ ("False" :> off) @@ ("True" :> on)
    @@ ("'debug'" :> dbg)

BZL_LIST_FOR_DEFAULTS ==
    ("'broken'" :> None) @@ ("False" :> off) @@ ("True" :> on)
    @@ ("'debug'" :> dbg)

\* Python truth of a value named by its repr
Truthy(v) == v \notin {"False", "None", "0", "''"}

Has(d, k) == k \in DOMAIN d

----------------------------------------------------------------------------
(* Dates: datetime.date ordinals (proleptic Gregorian), lines 76-77, 110. *)

IsLeap(y) == (y % 4 = 0) /\ ((y % 100 # 0) \/ (y % 400 = 0))

DaysInMonth(y, m) ==
    IF m = 2 THEN (IF IsLeap(y) THEN 29 ELSE 28)
    ELSE IF m \in {4, 6, 9, 11} THEN 30 ELSE 31

RECURSIVE DaysBeforeMonth(_, _)
DaysBeforeMonth(y, m) ==
    IF m = 1 THEN 0 ELSE DaysBeforeMonth(y, m - 1) + DaysInMonth(y, m - 1)

DaysBeforeYear(y) ==
    (y - 1) * 365 + ((y - 1) \div 4) - ((y - 1) \div 100) + ((y - 1) \div 400)

toordinal(y, m, d) == DaysBeforeYear(y) + DaysBeforeMonth(y, m) + d

Ymd(y, m, d) == [kind |-> "ymd", y |-> y, m |-> m, d |-> d]
Text(s) == [kind |-> "text", text |-> s]
never_ever == Text("never-ever")

\* whether strptime(text, '%Y/%m/%d') returns instead of raising ValueError
strptime_ok(e) ==
    /\ e.kind = "ymd"
    /\ e.y \in 1..9999
    /\ e.m \in 1..12
    /\ e.d \in 1..DaysInMonth(e.y, e.m)

\* strptime(text, '%Y/%m/%d').date(), as an ordinal
strptime_date(e) == toordinal(e.y, e.m, e.d)

two_quarters_from_now == today + 180

IsExpired_inclusive(expiry) == expiry <= today

IsExpired(expiry) == expiry < today

IsFarInFuture(expiry) == expiry > two_quarters_from_now

----------------------------------------------------------------------------
(* The documents the runs are given. *)

TodaySamples == {toordinal(2023, 1, 15)}

d_plain == <<100>>
d_quoted == <<115, 97, 121, 32, 34, 104, 105, 34>>
d_accent == <<99, 97, 102, 233>>
owner == <<111>>

Experiment(n, e, tags) ==
    [name |-> n, description |-> d_plain, owner |-> owner, expiry |-> e,
     test_tags |-> tags]

ExperimentSamples ==
    { Experiment(foo_bar, Ymd(2023, 1, 25), <<tag_core>>),
      Experiment(foo_bar, Ymd(2023, 1, 15), <<tag_core, tag_api>>),
      Experiment(foo_bar, Ymd(2023, 7, 15), <<tag_api>>),
      Experiment(baz, Ymd(2023, 7, 14), <<tag_core>>),
      Experiment(baz, Ymd(2023, 1, 14), <<>>),
      Experiment(baz, Ymd(2023, 2, 30), <<tag_core>>),
      Experiment(monitoring_experiment, never_ever, <<tag_core>>),
      Experiment(monitoring_experiment, Ymd(2023, 1, 25), <<>>),
      Experiment(long_name, Ymd(2023, 1, 25), <<>>),
      [name |-> baz, description |-> d_quoted, owner |-> owner,
       expiry |-> Ymd(2023, 1, 25), test_tags |-> <<tag_api, tag_core>>,
       allow_in_fuzzing_config |-> "False"],
      [description |-> d_plain, owner |-> owner, expiry |-> Ymd(2023, 1, 25),
       test_tags |-> <<>>],
      [name |-> foo_bar, test_tags |-> <<tag_core>>],
      [name |-> foo_bar, description |-> d_plain, owner |-> owner,
       expiry |-> Ymd(2023, 1, 25)],
      [name |-> baz, description |-> d_accent, owner |-> owner,
       expiry |-> Ymd(2023, 1, 25), test_tags |-> <<>>,
       allow_in_fuzzing_config |-> "True"] }

RolloutSamples ==
    { [name |-> foo_bar, default |-> "True"],
      [name |-> foo_bar, default |-> "False"],
      [name |-> baz, default |-> "True"],
      [name |-> baz, default |-> "'debug'"],
      [name |-> baz, default |-> "'broken'"],
      [name |-> zed, default |-> "'debug'"],
      [name |-> zed, default |-> "'maybe'"],
      [default |-> "True"],
      [name |-> foo_bar] }

SeqsUpTo(S, n) == UNION {[1..k -> S] : k \in 0..n}

----------------------------------------------------------------------------
(* The files.  A file holds either what an earlier build left (stale) or   *)
(* what this program wrote since it opened it with mode 'w'.               *)

StaleFile == [stale |-> TRUE, closed |-> TRUE]

NoPrev == [run |-> 0]

Message(m, n, e) == [msg |-> m, name |-> n, expiry |-> e]
NoExpiry == Text("")

\* the state when the first statement of the validator runs, for documents
\* drawn from the given records
Start(experiments, policies) ==
    /\ check_dates \in BOOLEAN
    /\ attrs \in SeqsUpTo(experiments, MaxAttrs)
    /\ rollouts \in SeqsUpTo(policies, MaxRollouts)
    /\ today \in TodaySamples
    /\ error = FALSE
    /\ experiment_annotation =
         <<103, 82, 80, 67, 32, 101, 120, 112, 101, 114, 105, 109, 101, 110,
           116, 115, 58>>
    /\ pc = "rollout_pass"
    /\ idx = 1
    /\ stdout = <<>>
    /\ exited = FALSE
    /\ exit_code = 0
    /\ raised = ""
    /\ H = StaleFile
    /\ C = StaleFile
    /\ B = StaleFile
    /\ bzl_to_tags_to_experiments = <<>>
    /\ run = 1
    /\ prev = NoPrev

Init == Start(ExperimentSamples, RolloutSamples)

\* an uncaught exception: the traceback is printed and the status is 1
Raise(exc) ==
    /\ exited' = TRUE
    /\ exit_code' = 1
    /\ raised' = exc
    /\ UNCHANGED <<pc, idx>>

Continue(next_pc, next_idx) ==
    /\ pc' = next_pc
    /\ idx' = next_idx
    /\ UNCHANGED <<exited, exit_code, raised>>

----------------------------------------------------------------------------
(* Validation, lines 79-128. *)

\* lines 79-90: one iteration of the rollout loop
RolloutCheck ==
    /\ ~exited /\ pc = "rollout_pass" /\ idx <= Len(rollouts)
    /\ LET rollout_attr == rollouts[idx] IN
       IF ~Has(rollout_attr, "name")
       THEN \* line 81 formats `attr`, which is not bound yet
            /\ Raise("NameError")
            /\ UNCHANGED <<error, stdout>>
       ELSE IF ~Has(rollout_attr, "default")
       THEN \* line 85-86, then line 87 subscripts the missing key
            /\ stdout' = Append(stdout,
                   Message("no default", rollout_attr.name, NoExpiry))
            /\ error' = TRUE
            /\ Raise("KeyError")
       ELSE IF rollout_attr.default \notin DOMAIN DEFAULTS
       THEN /\ stdout' = Append(stdout,
                   Message("invalid default", rollout_attr.name, NoExpiry))
            /\ error' = TRUE
            /\ Continue(pc, idx + 1)
       ELSE /\ UNCHANGED <<error, stdout>>
            /\ Continue(pc, idx + 1)
    /\ UNCHANGED <<inputs, rollouts, experiment_annotation, H, C, B,
                   bzl_to_tags_to_experiments, run, prev>>

RolloutPassDone ==
    /\ ~exited /\ pc = "rollout_pass" /\ idx > Len(rollouts)
    /\ Continue("attr_pass", 1)
    /\ UNCHANGED <<inputs, rollouts, error, experiment_annotation, stdout,
                   H, C, B, bzl_to_tags_to_experiments, run, prev>>

AppendAnnotation_bare(annotation, name) == annotation \o name \o <<44>>

\* line 121
AppendAnnotation(annotation, name) == annotation \o name \o <<58, 48, 44>>

\* lines 96-104: the messages for the fields a named record lacks
MissingFieldMessages(attr) ==
    (IF Has(attr, "description") THEN <<>>
     ELSE <<Message("no description", attr.name, NoExpiry)>>)
    \o (IF Has(attr, "owner") THEN <<>>
        ELSE <<Message("no owner", attr.name, NoExpiry)>>)
    \o (IF Has(attr, "expiry") THEN <<>>
        ELSE <<Message("no expiry", attr.name, NoExpiry)>>)

\* lines 112-120: the messages of the date checks
DateMessages(attr) ==
    LET expiry == strptime_date(attr.expiry) IN
    (IF IsExpired(expiry)
     THEN <<Message("expired", attr.name, attr.expiry)>> ELSE <<>>)
    \o (IF IsFarInFuture(expiry)
        THEN <<Message("expires far in the future", attr.name, attr.expiry)>>
        ELSE <<>>)

\* lines 91-121: one iteration of the experiment loop
ExperimentCheck ==
    /\ ~exited /\ pc = "attr_pass" /\ idx <= Len(attrs)
    /\ LET attr == attrs[idx] IN
       IF ~Has(attr, "name")
       THEN /\ stdout' = Append(stdout, Message("no name", <<>>, NoExpiry))
            /\ error' = TRUE
            /\ Continue(pc, idx + 1)
            /\ UNCHANGED experiment_annotation
       ELSE LET missing == MissingFieldMessages(attr) IN
            IF ~Has(attr, "expiry")
            THEN \* line 106 or line 110 subscripts the missing key
                 /\ stdout' = stdout \o missing
                 /\ error' = TRUE
                 /\ Raise("KeyError")
                 /\ UNCHANGED experiment_annotation
            ELSE IF attr.name = monitoring_experiment
            THEN /\ stdout' = stdout \o missing \o
                      (IF attr.expiry # never_ever
                       THEN <<Message("monitoring_experiment should never expire",
                                      attr.name, NoExpiry)>>
                       ELSE <<>>)
                 /\ error' = (error \/ missing # <<>> \/ attr.expiry # never_ever)
                 /\ Continue(pc, idx + 1)
                 /\ UNCHANGED experiment_annotation
            ELSE IF ~strptime_ok(attr.expiry)
            THEN /\ stdout' = stdout \o missing
                 /\ error' = (error \/ missing # <<>>)
                 /\ Raise("ValueError")
                 /\ UNCHANGED experiment_annotation
            ELSE IF check_dates
            THEN /\ stdout' = stdout \o missing \o DateMessages(attr)
                 /\ error' = (error \/ missing # <<>> \/ DateMessages(attr) # <<>>)
                 /\ experiment_annotation' =
                      AppendAnnotation(experiment_annotation, attr.name)
                 /\ Continue(pc, idx + 1)
            ELSE /\ stdout' = stdout \o missing
                 /\ error' = (error \/ missing # <<>>)
                 /\ Continue(pc, idx + 1)
                 /\ UNCHANGED experiment_annotation
    /\ UNCHANGED <<inputs, rollouts, H, C, B, bzl_to_tags_to_experiments,
                   run, prev>>

ExperimentPassDone ==
    /\ ~exited /\ pc = "attr_pass" /\ idx > Len(attrs)
    /\ Continue("annotation_check", 1)
    /\ UNCHANGED <<inputs, rollouts, error, experiment_annotation, stdout,
                   H, C, B, bzl_to_tags_to_experiments, run, prev>>

AnnotationLimit == 2000

\* lines 123-125
AnnotationCheck ==
    /\ ~exited /\ pc = "annotation_check"
    /\ IF Len(experiment_annotation) > AnnotationLimit
       THEN /\ stdout' = Append(stdout, Message("too long", <<>>, NoExpiry))
            /\ error' = TRUE
       ELSE UNCHANGED <<stdout, error>>
    /\ Continue("exit_check", 1)
    /\ UNCHANGED <<inputs, rollouts, experiment_annotation, H, C, B,
                   bzl_to_tags_to_experiments, run, prev>>

\* lines 127-128
ExitOnError ==
    /\ ~exited /\ pc = "exit_check"
    /\ IF error
       THEN /\ exited' = TRUE
            /\ exit_code' = 1
            /\ UNCHANGED <<pc, idx, raised>>
       ELSE Continue("open_H", 1)
    /\ UNCHANGED <<inputs, rollouts, error, experiment_annotation, stdout,
                   H, C, B, bzl_to_tags_to_experiments, run, prev>>

Validate ==
    \/ RolloutCheck
    \/ RolloutPassDone
    \/ ExperimentCheck
    \/ ExperimentPassDone
    \/ AnnotationCheck
    \/ ExitOnError

----------------------------------------------------------------------------
(* Helpers of the renderers, lines 131-182. *)

Octal(c) == <<92, 48 + (c \div 64), 48 + ((c \div 8) % 8), 48 + (c % 8)>>

\* line 133: str.encode('ascii') raises UnicodeEncodeError otherwise
IsAscii(s) == \A k \in DOMAIN s : s[k] < 128

RECURSIVE Escaped(_)
Escaped(s) ==
    IF s = <<>> THEN <<>>
    ELSE LET c == Head(s) IN
         (IF ~(32 <= c /\ c < 127) \/ c \in {92, 34} THEN Octal(c) ELSE <<c>>)
         \o Escaped(Tail(s))

\* lines 131-141
c_str(s) == <<34>> \o Escaped(s) \o <<34>>

Upper(c) == IF c \in 97..122 THEN c - 32 ELSE c
Lower(c) == IF c \in 65..90 THEN c + 32 ELSE c

\* str.upper(), lines 242 and 249
upper(s) == [k \in DOMAIN s |-> Upper(s[k])]

\* lines 144-145: the pieces between '_' capitalized and joined
snake_to_pascal(s) ==
    LET cased == [k \in DOMAIN s |->
                     IF k = 1 \/ s[k - 1] = 95 THEN Upper(s[k]) ELSE Lower(s[k])]
        kept == SelectSeq([k \in DOMAIN s |-> k], LAMBDA k : s[k] # 95)
    IN [j \in DOMAIN kept |-> cased[kept[j]]]

HasRollout(name) == \E k \in DOMAIN rollouts : rollouts[k].name = name

FirstMatch(name) ==
    CHOOSE k \in DOMAIN rollouts :
        /\ rollouts[k].name = name
        /\ \A j \in 1..(k - 1) : rollouts[j].name # name

get_rollout_attr_for_experiment_any(name) ==
    IF rollouts # <<>> THEN rollouts[1]
    ELSE [name |-> name, default |-> "'false'"]

\* lines 177-182: the value returned
get_rollout_attr_for_experiment(name) ==
    IF HasRollout(name) THEN rollouts[FirstMatch(name)]
    ELSE [name |-> name, default |-> "'false'"]

\* line 181: what the call prints
RolloutWarning(name) ==
    IF HasRollout(name) THEN <<>>
    ELSE <<Message("WARNING no rollout config", name, NoExpiry)>>

----------------------------------------------------------------------------
(* experiments.h, lines 218-263. *)

\* lines 218-236: open for writing, banner, includes, the #ifdef
OpenH ==
    /\ ~exited /\ pc = "open_H"
    /\ H' = [stale |-> FALSE, closed |-> FALSE, final |-> <<>>,
             tunable |-> <<>>, kNumExperiments |-> <<>>]
    /\ Continue("H_final", 1)
    /\ UNCHANGED <<inputs, rollouts, error, experiment_annotation, stdout,
                   C, B, bzl_to_tags_to_experiments, run, prev>>

\* lines 239-246: what one experiment adds to the #ifdef branch
FinalEntry(attr, rollout_attr) ==
    [define |-> IF Truthy(FINAL_DEFINE[rollout_attr.default])
                THEN <<FINAL_DEFINE[rollout_attr.default]>> ELSE <<>>,
     macro |-> upper(attr.name),
     function |-> snake_to_pascal(attr.name),
     body |-> FINAL_RETURN[rollout_attr.default]]

\* lines 237-246: one iteration
EmitFinal ==
    /\ ~exited /\ pc = "H_final" /\ idx <= Len(attrs)
    /\ LET attr == attrs[idx]
           rollout_attr == get_rollout_attr_for_experiment(attr.name)
       IN /\ stdout' = stdout \o RolloutWarning(attr.name)
          /\ IF rollout_attr.default \notin DOMAIN FINAL_DEFINE
             THEN /\ Raise("KeyError")
                  /\ H' = [H EXCEPT !.closed = TRUE]
             ELSE /\ H' = [H EXCEPT
                            !.final = Append(@, FinalEntry(attr, rollout_attr))]
                  /\ Continue(pc, idx + 1)
    /\ UNCHANGED <<inputs, rollouts, error, experiment_annotation,
                   C, B, bzl_to_tags_to_experiments, run, prev>>

\* line 247
EmitFinalDone ==
    /\ ~exited /\ pc = "H_final" /\ idx > Len(attrs)
    /\ Continue("H_tunable", 1)
    /\ UNCHANGED <<inputs, rollouts, error, experiment_annotation, stdout,
                   H, C, B, bzl_to_tags_to_experiments, run, prev>>

TunableEntry_from_one(i, attr) ==
    [macro |-> upper(attr.name),
     function |-> snake_to_pascal(attr.name),
     index |-> i + 1]

\* lines 249-253: what one experiment adds to the #else branch
TunableEntry(i, attr) ==
    [macro |-> upper(attr.name),
     function |-> snake_to_pascal(attr.name),
     index |-> i]

\* lines 248-253: one iteration; enumerate() counts from 0
EmitTunable ==
    /\ ~exited /\ pc = "H_tunable" /\ idx <= Len(attrs)
    /\ H' = [H EXCEPT !.tunable = Append(@, TunableEntry(idx - 1, attrs[idx]))]
    /\ Continue(pc, idx + 1)
    /\ UNCHANGED <<inputs, rollouts, error, experiment_annotation, stdout,
                   C, B, bzl_to_tags_to_experiments, run, prev>>

\* lines 254-263: the count, the table's declaration, the #endif
CloseH ==
    /\ ~exited /\ pc = "H_tunable" /\ idx > Len(attrs)
    /\ H' = [H EXCEPT !.kNumExperiments = <<Len(attrs)>>, !.closed = TRUE]
    /\ Continue("open_C", 1)
    /\ UNCHANGED <<inputs, rollouts, error, experiment_annotation, stdout,
                   C, B, bzl_to_tags_to_experiments, run, prev>>

WriteH == OpenH \/ EmitFinal \/ EmitFinalDone \/ EmitTunable \/ CloseH

----------------------------------------------------------------------------
(* experiments.cc, lines 265-311. *)

\* lines 265-277
OpenC ==
    /\ ~exited /\ pc = "open_C"
    /\ C' = [stale |-> FALSE, closed |-> FALSE, constants |-> <<>>,
             kDefaultForDebugOnly |-> FALSE, g_experiment_metadata |-> <<>>]
    /\ Continue("C_constants", 1)
    /\ UNCHANGED <<inputs, rollouts, error, experiment_annotation, stdout,
                   H, B, bzl_to_tags_to_experiments, run, prev>>

\* lines 278-284: one iteration
EmitConstants ==
    /\ ~exited /\ pc = "C_constants" /\ idx <= Len(attrs)
    /\ LET attr == attrs[idx] IN
       IF ~IsAscii(attr.description)
       THEN /\ Raise("UnicodeEncodeError")
            /\ C' = [C EXCEPT !.closed = TRUE]
       ELSE /\ C' = [C EXCEPT !.constants = Append(@,
                        [name |-> attr.name,
                         description |-> c_str(attr.description),
                         additional_constraints |-> <<34, 34>>])]
            /\ Continue(pc, idx + 1)
    /\ UNCHANGED <<inputs, rollouts, error, experiment_annotation, stdout,
                   H, B, bzl_to_tags_to_experiments, run, prev>>

have_defaults_of_last ==
    {DEFAULTS[rollouts[k].default] : k \in {Len(rollouts)} \cap DOMAIN rollouts}

\* lines 285-286
have_defaults == {DEFAULTS[rollouts[k].default] : k \in DOMAIN rollouts}

\* lines 285-298
EmitDebugDefault ==
    /\ ~exited /\ pc = "C_constants" /\ idx > Len(attrs)
    /\ C' = [C EXCEPT
              !.kDefaultForDebugOnly = ("kDefaultForDebugOnly" \in have_defaults)]
    /\ Continue("C_metadata", 1)
    /\ UNCHANGED <<inputs, rollouts, error, experiment_annotation, stdout,
                   H, B, bzl_to_tags_to_experiments, run, prev>>

\* lines 302-306: one row of the table
MetadataRow(attr, rollout_attr) ==
    [name |-> c_str(attr.name),
     description |-> attr.name,
     additional_constraints |-> attr.name,
     default |-> DEFAULTS[rollout_attr.default],
     allow_in_fuzzing_config |->
        IF (IF Has(attr, "allow_in_fuzzing_config")
            THEN Truthy(attr.allow_in_fuzzing_config) ELSE TRUE)
        THEN "true" ELSE "false"]

\* lines 300-307: one iteration
EmitMetadata ==
    /\ ~exited /\ pc = "C_metadata" /\ idx <= Len(attrs)
    /\ LET attr == attrs[idx]
           rollout_attr == get_rollout_attr_for_experiment(attr.name)
       IN /\ stdout' = stdout \o RolloutWarning(attr.name)
          /\ IF ~IsAscii(attr.name)
             THEN /\ Raise("UnicodeEncodeError")
                  /\ C' = [C EXCEPT !.closed = TRUE]
             ELSE IF rollout_attr.default \notin DOMAIN DEFAULTS
             THEN /\ Raise("KeyError")
                  /\ C' = [C EXCEPT !.closed = TRUE]
             ELSE /\ C' = [C EXCEPT !.g_experiment_metadata =
                              Append(@, MetadataRow(attr, rollout_attr))]
                  /\ Continue(pc, idx + 1)
    /\ UNCHANGED <<inputs, rollouts, error, experiment_annotation,
                   H, B, bzl_to_tags_to_experiments, run, prev>>

\* lines 308-315: the file is closed, then the empty mapping is built
CloseC ==
    /\ ~exited /\ pc = "C_metadata" /\ idx > Len(attrs)
    /\ C' = [C EXCEPT !.closed = TRUE]
    /\ bzl_to_tags_to_experiments' = [key \in DOMAIN BZL_LIST_FOR_DEFAULTS |-> <<>>]
    /\ Continue("collect_tags", 1)
    /\ UNCHANGED <<inputs, rollouts, error, experiment_annotation, stdout,
                   H, B, run, prev>>

WriteC == OpenC \/ EmitConstants \/ EmitDebugDefault \/ EmitMetadata \/ CloseC

----------------------------------------------------------------------------
(* bazel/experiments.bzl, lines 317-350. *)

\* defaultdict(list): d[tag].append(name)
AppendTo(d, tag, name) ==
    [t \in DOMAIN d \cup {tag} |->
        IF t = tag
        THEN Append(IF tag \in DOMAIN d THEN d[tag] ELSE <<>>, name)
        ELSE d[t]]

\* lines 319-321: the inner loop over one experiment's tags
RECURSIVE AddTags(_, _, _)
AddTags(d, tags, name) ==
    IF tags = <<>> THEN d
    ELSE AddTags(AppendTo(d, Head(tags), name), Tail(tags), name)

\* lines 317-321: one iteration
CollectTags ==
    /\ ~exited /\ pc = "collect_tags" /\ idx <= Len(attrs)
    /\ LET attr == attrs[idx]
           rollout_attr == get_rollout_attr_for_experiment(attr.name)
           key == rollout_attr.default
       IN /\ stdout' = stdout \o RolloutWarning(attr.name)
          /\ IF ~Has(attr, "test_tags")
             THEN /\ Raise("KeyError")
                  /\ UNCHANGED bzl_to_tags_to_experiments
             ELSE IF attr.test_tags # <<>>
                     /\ key \notin DOMAIN bzl_to_tags_to_experiments
             THEN /\ Raise("KeyError")
                  /\ UNCHANGED bzl_to_tags_to_experiments
             ELSE /\ bzl_to_tags_to_experiments' =
                       IF attr.test_tags = <<>> THEN bzl_to_tags_to_experiments
                       ELSE [bzl_to_tags_to_experiments EXCEPT ![key] =
                               AddTags(@, attr.test_tags, attr.name)]
                  /\ Continue(pc, idx + 1)
    /\ UNCHANGED <<inputs, rollouts, error, experiment_annotation,
                   H, C, B, run, prev>>

\* lines 344-348: one category's tags, sorted, each with its names sorted
SortedTags(tags_to_experiments) ==
    LET tags == SortedKeys(DOMAIN tags_to_experiments) IN
    [k \in DOMAIN tags |->
        [tag |-> tags[k], experiments |-> sorted(tags_to_experiments[tags[k]])]]

\* lines 335-349: the categories, sorted, without the None one
EXPERIMENTS(mapping) ==
    LET kept == {d \in DOMAIN mapping : BZL_LIST_FOR_DEFAULTS[d] # None}
        keys == SortedKeys({BZL_LIST_FOR_DEFAULTS[d] : d \in kept})
    IN [k \in DOMAIN keys |->
          LET default == CHOOSE d \in kept : BZL_LIST_FOR_DEFAULTS[d] = keys[k]
          IN [key |-> keys[k], tags |-> SortedTags(mapping[default])]]

\* lines 323-350, and the end of the program
WriteB ==
    /\ ~exited /\ pc = "collect_tags" /\ idx > Len(attrs)
    /\ B' = [stale |-> FALSE, closed |-> TRUE,
             EXPERIMENTS |-> EXPERIMENTS(bzl_to_tags_to_experiments)]
    /\ pc' = "end"
    /\ exited' = TRUE
    /\ exit_code' = 0
    /\ UNCHANGED <<inputs, rollouts, error, experiment_annotation, stdout,
                   idx, raised, H, C, bzl_to_tags_to_experiments, run, prev>>

Render == WriteH \/ WriteC \/ CollectTags \/ WriteB

Next == Validate \/ Render

Spec == Init /\ [][Next]_vars

----------------------------------------------------------------------------
(* A second invocation.  The generator is run again over the same          *)
(* experiment document and an edited rollout document; the three files     *)
(* are as the first invocation left them.                                  *)

Reordered(doc) ==
    {[k \in DOMAIN doc |-> doc[p[k]]] : p \in Permutations(DOMAIN doc)}

Without(doc, k) == SubSeq(doc, 1, k - 1) \o SubSeq(doc, k + 1, Len(doc))

Edited(doc) == Reordered(doc) \cup {Without(doc, k) : k \in DOMAIN doc}

\* lines 36-78 of the second process
Rerun ==
    /\ exited /\ run = 1
    /\ \E doc \in Edited(rollouts) : rollouts' = doc
    /\ prev' = [run |-> run, rollouts |-> rollouts, H |-> H, C |-> C, B |-> B,
                exit_code |-> exit_code, raised |-> raised, stdout |-> stdout,
                pc |-> pc]
    /\ run' = 2
    /\ error' = FALSE
    /\ experiment_annotation' =
         <<103, 82, 80, 67, 32, 101, 120, 112, 101, 114, 105, 109, 101, 110,
           116, 115, 58>>
    /\ pc' = "rollout_pass"
    /\ idx' = 1
    /\ stdout' = <<>>
    /\ exited' = FALSE
    /\ exit_code' = 0
    /\ raised' = ""
    /\ bzl_to_tags_to_experiments' = <<>>
    /\ UNCHANGED <<inputs, H, C, B>>

NextRerun == Next \/ Rerun

----------------------------------------------------------------------------
(* Specifications over narrower families of documents. *)

\* complete experiment records: every date and name of the samples
DatedExperiments ==
    {e \in ExperimentSamples :
        /\ {"name", "description", "owner", "expiry", "test_tags"} = DOMAIN e
        /\ e.description = d_plain}

DatedPolicies ==
    { [name |-> foo_bar, default |-> "True"],
      [name |-> baz, default |-> "'debug'"] }

InitDates == Start(DatedExperiments, DatedPolicies)

SpecDates == InitDates /\ [][Next]_vars

\* experiment records that pass validation in strict mode
ValidExperiments ==
    {e \in ExperimentSamples :
        /\ {"name", "description", "owner", "expiry", "test_tags"} \subseteq DOMAIN e
        /\ Len(e.name) < LongNameLen
        /\ IF e.name = monitoring_experiment THEN e.expiry = never_ever
           ELSE /\ strptime_ok(e.expiry)
                /\ \A t \in TodaySamples :
                     strptime_date(e.expiry) \in t..(t + 180)}

\* rollout records that pass validation, for the names of the experiments
MatchedPolicies ==
    {r \in RolloutSamples :
        /\ {"name", "default"} \subseteq DOMAIN r
        /\ r.default \in DOMAIN DEFAULTS
        /\ \E e \in ValidExperiments : e.name = r.name}

InitRender == Start(ValidExperiments, MatchedPolicies)

\* two experiments, and rollout records that match them or nothing
RerunExperiments ==
    {e \in ValidExperiments :
        \/ e = Experiment(foo_bar, Ymd(2023, 1, 25), <<tag_core>>)
        \/ e.name = baz /\ e.description = d_quoted}

RerunPolicies ==
    {r \in RolloutSamples :
        /\ {"name", "default"} \subseteq DOMAIN r
        /\ r.name = baz => r.default = "'debug'"}

InitRerun == Start(RerunExperiments, RerunPolicies)

SpecRerun == InitRerun /\ [][NextRerun]_vars

SpecRender == InitRender /\ [][Next]_vars

----------------------------------------------------------------------------
(* Properties. *)

Untouched(F) == F = StaleFile
Written(F) == ~F.stale /\ F.closed

ValidationPassed == pc \notin {"rollout_pass", "attr_pass", "annotation_check",
                               "exit_check"}

\* C1: a violation only sets the failure flag and validation goes on to
\* the next record; the process exits non-zero only after the last record
\* of both documents has been checked, never from inside either loop.
C1_NoEarlyAbort ==
    (exited /\ exit_code # 0) => pc \notin {"rollout_pass", "attr_pass"}

\* C2: a run ends either with status 0 and the three artifacts completely
\* written, or with a non-zero status and none of the three files created,
\* truncated or overwritten.
C2_AllOrNothing ==
    exited =>
        \/ /\ exit_code = 0
           /\ Written(H) /\ Written(C) /\ Written(B)
           /\ Len(H.final) = Len(attrs) /\ Len(H.tunable) = Len(attrs)
           /\ Len(C.g_experiment_metadata) = Len(attrs)
        \/ /\ exit_code # 0
           /\ Untouched(H) /\ Untouched(C) /\ Untouched(B)

Unmatched(k) == \A j \in DOMAIN rollouts : rollouts[j].name # attrs[k].name

Renderable ==
    \A k \in DOMAIN attrs :
        Has(attrs[k], "test_tags") /\ IsAscii(attrs[k].description)

\* C3: when validation recorded no error and some experiment has no rollout
\* record, the run prints a warning for it, ends with status 0, and that
\* experiment is rendered as a disabled one: an always-false accessor
\* without marker, default false in the table.
C3_UnmatchedIsDisabled ==
    (exited /\ ValidationPassed /\ Renderable
        /\ \E k \in DOMAIN attrs : Unmatched(k))
    => /\ exit_code = 0
       /\ \A k \in DOMAIN attrs : Unmatched(k) =>
            /\ Message("WARNING no rollout config", attrs[k].name, NoExpiry)
                 \in Range(stdout)
            /\ H.final[k].body = "return false;"
            /\ H.final[k].define = <<>>
            /\ C.g_experiment_metadata[k].default = "false"

\* the experiment records the loop of line 91 has finished with
Checked ==
    IF pc = "rollout_pass" THEN 0
    ELSE IF pc = "attr_pass" THEN idx - 1
    ELSE Len(attrs)

\* a record that reaches the date checks of lines 110-120
Dated(a) ==
    /\ Has(a, "name") /\ a.name # monitoring_experiment
    /\ Has(a, "expiry") /\ strptime_ok(a.expiry)

Said(m, a) == Message(m, a.name, a.expiry) \in Range(stdout)

\* C4: for every checked experiment other than monitoring_experiment whose
\* expiry parses, "expired" is recorded iff the mode is strict and
\* expiry < today, and "far in the future" iff the mode is strict and
\* expiry > today + 180 days; so the window [today, today + 180] passes,
\* both ends included, and relaxed mode records no date error at all.
C4_ExpiryWindow ==
    \A k \in 1..Checked :
        LET a == attrs[k] IN
        Dated(a) =>
            LET e == toordinal(a.expiry.y, a.expiry.m, a.expiry.d) IN
            /\ Said("expired", a) <=> (check_dates /\ e < today)
            /\ Said("expires far in the future", a)
                 <=> (check_dates /\ e > today + 180)
            /\ (Said("expired", a) \/ Said("expires far in the future", a))
                 => error

\* strict mode, both ends of the window checked without any error
C4_Witness ==
    /\ check_dates /\ pc = "exit_check" /\ ~error
    /\ \E j, k \in DOMAIN attrs :
        /\ Dated(attrs[j]) /\ strptime_date(attrs[j].expiry) = today
        /\ Dated(attrs[k]) /\ strptime_date(attrs[k].expiry) = today + 180

----------------------------------------------------------------------------

Prefix ==
    <<103, 82, 80, 67, 32, 101, 120, 112, 101, 114, 105, 109, 101, 110,
      116, 115, 58>>

\* the record had no error recorded against it
Passed(a) ==
    /\ Has(a, "description") /\ Has(a, "owner") /\ Dated(a)
    /\ check_dates =>
         /\ strptime_date(a.expiry) >= today
         /\ strptime_date(a.expiry) <= today + 180

RECURSIVE PassedLength(_)
PassedLength(k) ==
    IF k = 0 THEN 0
    ELSE PassedLength(k - 1)
         + (IF Passed(attrs[k]) THEN Len(attrs[k].name) + 3 ELSE 0)

\* C10 as stated: the string checked is "name:0," for exactly the
\* experiments other than monitoring_experiment that passed their checks,
\* and the run records the length error iff that concatenation is longer
\* than 2000 characters, in strict and in relaxed mode alike.
C10_AsStated ==
    pc \in {"exit_check", "open_H"} =>
        (Message("too long", <<>>, NoExpiry) \in Range(stdout)
            <=> PassedLength(Len(attrs)) > 2000)

RECURSIVE DatedNames(_)
DatedNames(k) ==
    IF k = 0 THEN <<>>
    ELSE DatedNames(k - 1)
         \o (IF Dated(attrs[k]) THEN attrs[k].name \o <<58, 48, 44>> ELSE <<>>)

\* C10 as amended: in strict mode the string is "gRPC experiments:"
\* followed by "name:0," for every checked experiment other than
\* monitoring_experiment whose expiry parsed, whatever errors it recorded,
\* and the length error is recorded iff this whole string, prefix
\* included, is longer than 2000 characters; in relaxed mode nothing is
\* appended and the length error is never recorded.
C10_Annotation ==
    /\ experiment_annotation =
         Prefix \o (IF check_dates THEN DatedNames(Checked) ELSE <<>>)
    /\ pc \notin {"rollout_pass", "attr_pass", "annotation_check"} =>
         (Message("too long", <<>>, NoExpiry) \in Range(stdout)
            <=> (check_dates /\ Len(Prefix) + Len(DatedNames(Len(attrs))) > 2000))

\* strict mode: the names alone stay within 2000 characters, the string
\* with its prefix does not, and the length error is recorded
C10_Witness ==
    /\ check_dates /\ pc = "exit_check"
    /\ Len(DatedNames(Len(attrs))) <= 2000
    /\ Message("too long", <<>>, NoExpiry) \in Range(stdout)

----------------------------------------------------------------------------

\* the default of the first rollout record of that name
ResolvedPolicy(name) ==
    LET matches == {j \in DOMAIN rollouts : rollouts[j].name = name}
        first == CHOOSE j \in matches : \A i \in matches : j <= i
    IN rollouts[first].default

\* what the emitted C++ does in a build with (ndebug) or without NDEBUG
Returns(body, ndebug) ==
    \/ body = "return true;"
    \/ body = "#ifdef NDEBUG\nreturn false;\n#else\nreturn true;\n#endif"
       /\ ~ndebug

MarkerDefined(define, ndebug) ==
    \/ define = <<"#define %s">>
    \/ define = <<"#ifndef NDEBUG\n#define %s\n#endif">> /\ ~ndebug

----------------------------------------------------------------------------

PolicyDefault(policy) ==
    IF policy = "True" THEN "true"
    ELSE IF policy = "'debug'" THEN "kDefaultForDebugOnly"
    ELSE "false"

FuzzingFlag(a) ==
    IF ~Has(a, "allow_in_fuzzing_config") THEN "true"
    ELSE IF a.allow_in_fuzzing_config = "True" THEN "true" ELSE "false"

\* C6: in the #else branch the accessor of the experiment at position i
\* (from 0, in document order) looks up index i and its marker is always
\* defined; the count emitted is the number N of experiment records, so
\* every index is in 0..N-1; the table has N rows, and row i holds the
\* name, the description constant, the empty constraints constant, the
\* default of the policy and the fuzzing flag (true when absent) of that
\* same experiment.
C6_TunableByPosition ==
    /\ ~H.stale =>
         /\ \A k \in DOMAIN H.tunable :
              /\ H.tunable[k].index = k - 1
              /\ H.tunable[k].index \in 0..(Len(attrs) - 1)
              /\ H.tunable[k].macro = upper(attrs[k].name)
         /\ H.kNumExperiments # <<>> =>
              /\ H.kNumExperiments = <<Len(attrs)>>
              /\ Len(H.tunable) = Len(attrs)
    /\ ~C.stale =>
         /\ \A k \in DOMAIN C.constants :
              /\ C.constants[k].name = attrs[k].name
              /\ C.constants[k].description = c_str(attrs[k].description)
              /\ C.constants[k].additional_constraints = <<34, 34>>
         /\ \A k \in DOMAIN C.g_experiment_metadata :
              LET row == C.g_experiment_metadata[k] IN
              /\ row.name = c_str(attrs[k].name)
              /\ row.description = C.constants[k].name
              /\ row.additional_constraints = C.constants[k].name
              /\ row.default = PolicyDefault(ResolvedPolicy(attrs[k].name))
              /\ row.allow_in_fuzzing_config = FuzzingFlag(attrs[k])
    /\ (exited /\ exit_code = 0) =>
         /\ Len(C.constants) = Len(attrs)
         /\ Len(C.g_experiment_metadata) = Len(attrs)

\* a finished run over two experiments, one of them kept out of fuzzing
C6_Witness ==
    /\ exited /\ exit_code = 0 /\ Len(attrs) = 2
    /\ H.tunable[2].index = 1
    /\ C.g_experiment_metadata[1].allow_in_fuzzing_config = "true"
    /\ C.g_experiment_metadata[2].allow_in_fuzzing_config = "false"
    /\ C.g_experiment_metadata[2].default = "kDefaultForDebugOnly"

----------------------------------------------------------------------------

Category(policy) ==
    IF policy = "False" THEN <<off>>
    ELSE IF policy = "True" THEN <<on>>
    ELSE IF policy = "'debug'" THEN <<dbg>>
    ELSE <<>>

\* name n is listed under category c and tag t
Listed(c, t, n) ==
    \E k \in DOMAIN B.EXPERIMENTS : \E m \in DOMAIN B.EXPERIMENTS[k].tags :
        /\ B.EXPERIMENTS[k].key = c
        /\ B.EXPERIMENTS[k].tags[m].tag = t
        /\ n \in Range(B.EXPERIMENTS[k].tags[m].experiments)

Ascending(s) == \A k \in 1..(Len(s) - 1) : StrLess(s[k], s[k + 1])
NotDescending(s) == \A k \in 1..(Len(s) - 1) : ~StrLess(s[k + 1], s[k])

AllTags == UNION {Range(attrs[k].test_tags) : k \in DOMAIN attrs}
AllNames == {attrs[k].name : k \in DOMAIN attrs}

\* C7: in the mapping written to experiments.bzl a name is listed under
\* category c and tag t iff an experiment of that name carries t and its
\* resolved policy maps to c (disabled to off, enabled to on, debug-only to
\* dbg); an experiment whose policy is broken is listed nowhere; the
\* categories, the tags of a category and the names of a tag are in sorted
\* order.
C7_TagMapping ==
    ~B.stale =>
        /\ \A c \in {off, on, dbg} : \A t \in AllTags : \A n \in AllNames :
             Listed(c, t, n)
               <=> \E i \in DOMAIN attrs :
                     /\ attrs[i].name = n
                     /\ t \in Range(attrs[i].test_tags)
                     /\ Category(ResolvedPolicy(n)) = <<c>>
        /\ \A k \in DOMAIN B.EXPERIMENTS :
             /\ B.EXPERIMENTS[k].key \in {off, on, dbg}
             /\ \A m \in DOMAIN B.EXPERIMENTS[k].tags :
                  /\ B.EXPERIMENTS[k].tags[m].tag \in AllTags
                  /\ Range(B.EXPERIMENTS[k].tags[m].experiments) \subseteq AllNames
                  /\ NotDescending(B.EXPERIMENTS[k].tags[m].experiments)
                  /\ \A n \in Range(B.EXPERIMENTS[k].tags[m].experiments) :
                       ResolvedPolicy(n) # "'broken'"
             /\ Ascending([m \in DOMAIN B.EXPERIMENTS[k].tags |->
                             B.EXPERIMENTS[k].tags[m].tag])
        /\ Ascending([k \in DOMAIN B.EXPERIMENTS |-> B.EXPERIMENTS[k].key])

\* two names under one tag, listed against document order
C7_Witness ==
    /\ ~B.stale
    /\ \E k \in DOMAIN B.EXPERIMENTS : \E m \in DOMAIN B.EXPERIMENTS[k].tags :
         /\ Len(B.EXPERIMENTS[k].tags[m].experiments) = 2
         /\ B.EXPERIMENTS[k].tags[m].experiments[1] = attrs[2].name
         /\ B.EXPERIMENTS[k].tags[m].experiments[2] = attrs[1].name
         /\ attrs[1].name # attrs[2].name

----------------------------------------------------------------------------

Finished2 == run = 2 /\ exited

SameArtifacts == H = prev.H /\ C = prev.C /\ B = prev.B

\* C8 as stated: for any two rollout documents that are permutations of
\* each other (the same document included) and the same experiment
\* document, the three artifacts are identical.
C8_AsStated ==
    (Finished2 /\ rollouts \in Reordered(prev.rollouts)) => SameArtifacts

\* records of one name agree on the default
Unambiguous(doc) ==
    \A j, k \in DOMAIN doc :
        ({"name", "default"} \subseteq DOMAIN doc[j] \cap DOMAIN doc[k]
            /\ doc[j].name = doc[k].name)
        => doc[j].default = doc[k].default

\* C8 as amended: for any two rollout documents that are permutations of
\* each other (the same document included) and in which the records of one
\* name agree on the default, and the same experiment document, the runs
\* end with the same status and the three artifacts are identical.
C8_OrderIrrelevant ==
    (Finished2 /\ rollouts \in Reordered(prev.rollouts) /\ Unambiguous(rollouts))
    => (SameArtifacts /\ exit_code = prev.exit_code)

\* both runs succeeded, over rollout records in different orders
C8_Witness ==
    /\ Finished2 /\ exit_code = 0 /\ prev.exit_code = 0
    /\ rollouts \in Reordered(prev.rollouts) /\ rollouts # prev.rollouts
    /\ Unambiguous(rollouts)
    /\ Len(attrs) = 2

----------------------------------------------------------------------------

MatchesNoExperiment(r) ==
    /\ Has(r, "name")
    /\ \A i \in DOMAIN attrs : Has(attrs[i], "name") => attrs[i].name # r.name

\* the second run was given the first run's document without record k
Dropped(k) == k \in DOMAIN prev.rollouts /\ rollouts = Without(prev.rollouts, k)

SameOutcome ==
    /\ exit_code = prev.exit_code /\ raised = prev.raised /\ pc = prev.pc
    /\ stdout = prev.stdout

\* C9 as stated: a rollout record whose name matches no experiment is
\* ignored; with or without it the run prints the same, ends the same and
\* writes the same three artifacts.
C9_AsStated ==
    \A k \in 1..(MaxRollouts + 1) :
        (Finished2 /\ Dropped(k) /\ MatchesNoExperiment(prev.rollouts[k]))
        => (SameOutcome /\ SameArtifacts)

HasDebug(doc) == \E j \in DOMAIN doc : doc[j].default = "'debug'"

\* C9 as amended: a rollout record whose name matches no experiment and
\* whose default is one of the four recognized ones changes, by its
\* presence, neither what the run prints, nor its status, nor
\* experiments.h, nor experiments.bzl, nor experiments.cc except for the
\* kDefaultForDebugOnly constant, which is emitted iff some rollout record,
\* matching or not, has the debug default.
C9_UnmatchedIgnored ==
    \A k \in 1..(MaxRollouts + 1) :
        (Finished2 /\ Dropped(k) /\ MatchesNoExperiment(prev.rollouts[k])
            /\ Has(prev.rollouts[k], "default")
            /\ prev.rollouts[k].default \in {"'broken'", "False", "True", "'debug'"})
        => /\ SameOutcome
           /\ H = prev.H /\ B = prev.B
           /\ C.stale = prev.C.stale
           /\ ~C.stale =>
                /\ [C EXCEPT !.kDefaultForDebugOnly = FALSE]
                     = [prev.C EXCEPT !.kDefaultForDebugOnly = FALSE]
                /\ pc \in {"C_metadata", "collect_tags", "end"} =>
                     /\ C.kDefaultForDebugOnly = HasDebug(rollouts)
                     /\ prev.C.kDefaultForDebugOnly = HasDebug(prev.rollouts)
           /\ prev.rollouts[k].default # "'debug'" => C = prev.C

\* both runs succeeded, the first with an unmatched debug record the
\* second lacks, and only the constant differs
C9_Witness ==
    /\ Finished2 /\ exit_code = 0 /\ prev.exit_code = 0
    /\ \E k \in DOMAIN prev.rollouts :
         /\ Dropped(k) /\ MatchesNoExperiment(prev.rollouts[k])
         /\ prev.rollouts[k].default = "'debug'"
    /\ prev.C.kDefaultForDebugOnly /\ ~C.kDefaultForDebugOnly
    /\ attrs # <<>>

====
